---- MODULE Spec2Model ----
(***************************************************************************)
(* Reservation lifecycle and availability engine of the booking backend    *)
(* (app/accounts/views.py, app/accounts/functions.py,                      *)
(* app/accounts/serializers.py, app/accounts/models.py).                   *)
(*                                                                         *)
(* Dates are day numbers counted from Epoch; money is in cents; the clock  *)
(* is in minutes.  Every HTTP handler is one action, except RentRoomAPI,   *)
(* whose conflict query and insert are two steps of one request so that    *)
(* concurrent requests can interleave between them (no transaction and no  *)
(* lock surrounds them in the source).  CreateCheckoutSessionLinkAPI is    *)
(* one action in the lifecycle specifications and three steps under its    *)
(* row lock in SpecCheckoutRace.                                           *)
(***************************************************************************)
EXTENDS Integers, Sequences, FiniteSets, TLC

\* ---------------------------------------------------------------- bounds
\* Largest day number a request may name (days 0..MaxDay).
MaxDay == 2
\* Largest number of reservation rows (persisted plus in flight).
MaxReservations == 2
\* Last clock value, in minutes.
MaxTime == 15
\* Largest number of Stripe checkout sessions created.
MaxSessions == 2
\* Largest number of successful discount applications.
MaxDiscounts == 2
\* Largest number of events put on a calendar from outside the application.
MaxExternalEvents == 1
\* Largest number of reservation rows in the pricing and checkout-race
\* specifications.
MaxPricedReservations == 1
\* Checkout requests that may be inside their transaction at once.
MaxCheckoutsInFlight == 2
MaxDeliveriesInFlight == 2

\* ------------------------------------------------------ program constants
\* views.py:873  timedelta(minutes=10) in the availability query
AvailGraceMinutes == 10
\* functions.py:727  timedelta(minutes=10) in get_busy_dates_from_reservations
BusyGraceMinutes == 10
\* views.py:1067  timedelta(minutes=10) in checkout-session creation
CheckoutGraceMinutes == 10
\* serializers.py:248  max_nights = 30
MaxNights == 30

UNPAID == "UNPAID"
PAID == "PAID"
CANCELED == "CANCELED"

\* ---------------------------------------------------------------- fixture
\* The clock advances in steps of half the grace period, so that an age
\* below, equal to and above the grace period all occur.
ClockStep == AvailGraceMinutes \div 2

Days == 0..MaxDay
\* Date of day number 0: <<year, month, day>>.
Epoch == <<2025, 6, 29>>

Rooms == {"R1", "R2"}
\* Room.cost_per_night, in cents; Room.max_people.
RoomCost == [r \in Rooms |-> IF r = "R1" THEN 10000 ELSE 8000]
RoomMaxPeople == [r \in Rooms |-> 2]

Users == {"alice", "bob", "admin"}
Admins == {"admin"}
\* Users who send create requests.
Creators == {"alice"}
PeopleInputs == {2, 3}

\* Discount rows: code -> percentage, validity window, minimum nights, rooms.
DiscountCodes == {"SUMMER10", "LATE20", "EARLY50"}
Discounts == [c \in DiscountCodes |->
    IF c = "SUMMER10"
    THEN [discount |-> 10, start_date |-> 0, end_date |-> 2,
          numbers_of_nights |-> 2, rooms |-> {"R1"}]
    ELSE IF c = "LATE20"
    THEN [discount |-> 20, start_date |-> 1, end_date |-> 2,
          numbers_of_nights |-> 1, rooms |-> {"R1", "R2"}]
    ELSE [discount |-> 50, start_date |-> 0, end_date |-> 1,
          numbers_of_nights |-> 1, rooms |-> {"R1", "R2"}]]
\* Codes a request may carry: the existing ones and an unknown one.
CodeInputs == DiscountCodes \cup {"NOPE"}

\* Reservation.payment_intent_id: blank, a checkout-session id or a
\* payment-intent id.
NoPayment == <<"", 0>>
SessionId(n) == <<"cs", n>>
PaymentIntentId(n) == <<"pi", n>>
\* Reservation.event_id of a reservation without calendar event (None).
NoEvent == 0

VARIABLES
    reservations,   \* Seq of Reservation rows, by primary key
    pending,        \* Seq of create requests past their checks, not yet
                    \* inserted; seen: the number of rows when they queried
    calendar,       \* events held by the calendar provider
    next_event,     \* next event id the calendar provider hands out
    sessions,       \* Seq of the checkout sessions Stripe created
    now,            \* clock, minutes
    n_discount,     \* successful discount applications so far
    resp,           \* the HTTP response the last step produced, if any
    probe,          \* inputs and result of a direct is_room_available call
    checkout_txn,   \* Seq of the open transactions of checkout requests
    deliveries      \* Seq of the webhook deliveries between lookup and save
                    \* that hold their reservation's row lock

vars == <<reservations, pending, calendar, next_event, sessions, now,
          n_discount, resp, probe, checkout_txn, deliveries>>

\* ------------------------------------------------------------ date format
IsLeap(y) == (y % 4 = 0 /\ y % 100 # 0) \/ y % 400 = 0

DaysInMonth(y, m) ==
    IF m \in {4, 6, 9, 11} THEN 30
    ELSE IF m = 2 THEN (IF IsLeap(y) THEN 29 ELSE 28)
    ELSE 31

NextDate(ymd) ==
    IF ymd[3] < DaysInMonth(ymd[1], ymd[2]) THEN <<ymd[1], ymd[2], ymd[3] + 1>>
    ELSE IF ymd[2] < 12 THEN <<ymd[1], ymd[2] + 1, 1>>
    ELSE <<ymd[1] + 1, 1, 1>>

RECURSIVE AddDays(_, _)
AddDays(ymd, n) == IF n = 0 THEN ymd ELSE AddDays(NextDate(ymd), n - 1)

\* date.strftime('%Y-%m-%d'): the zero-padded text is represented by its
\* three fields.
Strftime(d) == AddDays(Epoch, d)

\* ------------------------------------------------------------- responses
\* op: the handler; code: HTTP status; rid: the reservation the request names
\* (0: none or unknown); arg: the request's other input; body: the payload's
\* kind; rooms: the rooms listed by an availability response; notified:
\* whether the handler dispatched notifications and how that ended.
NoResp == [op |-> "none", code |-> 0, rid |-> 0, arg |-> "", body |-> "none",
           rooms |-> {}, notified |-> "none"]
Resp(op, code, rid, arg, body) ==
    [op |-> op, code |-> code, rid |-> rid, arg |-> arg, body |-> body,
     rooms |-> {}, notified |-> "none"]

\* The outcome of a notification dispatch, as the response records it.
Notified(notify_ok) == IF notify_ok THEN "sent" ELSE "failed"

\* A notification failure raised to the caller, who answers 500.
notification_surfaced(code, notify_ok) == IF notify_ok THEN code ELSE 500

\* send_payment_confirmation_email, send_confirmation_checkout_session_completed,
\* send_cancel_reservation_email, send_cancel_reservation_whatsapp_message:
\* each catches every exception and logs it, so the caller's status is
\* what it was going to be.
notification_swallowed(code, notify_ok) == code

NoProbe == [busy |-> {}, check_in |-> 0, check_out |-> 0, called |-> FALSE,
            result |-> FALSE]

Rids == 1..Len(reservations)
\* s without its k-th element
Remove(s, k) == [i \in 1..(Len(s) - 1) |-> IF i < k THEN s[i] ELSE s[i + 1]]
Nights(check_in, check_out) == check_out - check_in

\* -------------------------------------------------------------- create
\* The validation without the test of the number of people.
ReservationSerializer_validate_dates(room, check_in, check_out, number_of_people) ==
    /\ check_in < check_out
    /\ Nights(check_in, check_out) <= MaxNights

\* ReservationSerializer.validate
ReservationSerializer_validate(room, check_in, check_out, number_of_people) ==
    /\ check_in < check_out
    /\ number_of_people <= RoomMaxPeople[room]
    /\ Nights(check_in, check_out) <= MaxNights

\* The conflict query finding only the rows that start inside the
\* requested range.
conflicting_reservations_starting(room, check_in, check_out) ==
    {i \in Rids : /\ reservations[i].room = room
                  /\ reservations[i].check_in >= check_in
                  /\ reservations[i].check_in < check_out}

\* The conflict query with its two date bounds exchanged: it finds only the
\* rows that strictly contain the requested range.
conflicting_reservations_swapped(room, check_in, check_out) ==
    {i \in Rids : /\ reservations[i].room = room
                  /\ reservations[i].check_in < check_in
                  /\ reservations[i].check_out > check_out}

\* RentRoomAPI.post: Reservation.objects.filter(room=room,
\*   check_in__lt=check_out, check_out__gt=check_in)
conflicting_reservations(room, check_in, check_out) ==
    {i \in Rids : /\ reservations[i].room = room
                  /\ reservations[i].check_in < check_out
                  /\ reservations[i].check_out > check_in}

\* service.events().list(calendarId=..., timeMin=check_in, timeMax=check_out)
events_list(cal, time_min, time_max) ==
    {e \in calendar : e.cal = cal /\ e.end > time_min /\ e.start < time_max}

\* The total cost with the check-out day counted as a night.
calculate_total_cost_inclusive(room, check_in, check_out) ==
    (Nights(check_in, check_out) + 1) * RoomCost[room]

\* calculate_total_cost
calculate_total_cost(room, check_in, check_out) ==
    Nights(check_in, check_out) * RoomCost[room]

\* What a create response records of its request.
CreateArg(room, check_in, check_out, number_of_people) ==
    [room |-> room, check_in |-> check_in, check_out |-> check_out,
     number_of_people |-> number_of_people]

\* RentRoomAPI.post up to the end of its checks.  service_ok: the calendar
\* service could be built and listed the events.
RentRoomQuery(user, room, check_in, check_out, number_of_people, service_ok) ==
    /\ Len(reservations) + Len(pending) < MaxReservations
    /\ UNCHANGED <<reservations, calendar, next_event, sessions, now,
                   n_discount, probe, checkout_txn, deliveries>>
    /\ LET arg == CreateArg(room, check_in, check_out, number_of_people) IN
       IF ~ReservationSerializer_validate(room, check_in, check_out, number_of_people)
       THEN /\ resp' = Resp("create", 400, 0, arg, "validation")
            /\ UNCHANGED pending
       ELSE IF conflicting_reservations(room, check_in, check_out) # {}
       THEN /\ resp' = Resp("create", 400, 0, arg, "not available")
            /\ UNCHANGED pending
       ELSE IF ~service_ok
       THEN /\ resp' = Resp("create", 500, 0, arg, "calendar error")
            /\ UNCHANGED pending
       ELSE IF events_list(<<room, "primary">>, check_in, check_out) # {}
       THEN /\ resp' = Resp("create", 400, 0, arg, "calendar events")
            /\ UNCHANGED pending
       ELSE /\ pending' = Append(pending,
                    [user |-> user, room |-> room, check_in |-> check_in,
                     check_out |-> check_out,
                     number_of_people |-> number_of_people,
                     seen |-> Len(reservations)])
            /\ resp' = NoResp

\* RentRoomAPI.post from Reservation(**validated_data) to the 201 response.
RentRoomSave(k) ==
    /\ k \in 1..Len(pending)
    /\ pending' = Remove(pending, k)
    /\ reservations' = Append(reservations, LET p == pending[k] IN
          [room |-> p.room, user |-> p.user,
           check_in |-> p.check_in, check_out |-> p.check_out,
           number_of_people |-> p.number_of_people,
           total_cost |-> calculate_total_cost(p.room, p.check_in, p.check_out),
           coupon_used |-> "", payment_intent_id |-> NoPayment,
           event_id |-> NoEvent, status |-> UNPAID, created_at |-> now])
    /\ resp' = Resp("create", 201, Len(reservations) + 1,
                     CreateArg(pending[k].room, pending[k].check_in,
                               pending[k].check_out,
                               pending[k].number_of_people), "created")
    /\ UNCHANGED <<calendar, next_event, sessions, now, n_discount, probe, checkout_txn, deliveries>>

\* ------------------------------------------------------------- discount
\* Decimal.quantize to two places, ROUND_HALF_EVEN, as the DecimalField
\* total_cost stores it; x is in hundredths of a cent.
Quantize(x) ==
    LET q == x \div 100
        r == x % 100
    IN  IF r < 50 THEN q
        ELSE IF r > 50 THEN q + 1
        ELSE IF q % 2 = 0 THEN q ELSE q + 1

\* The conditions without the test of check_out against end_date.
discount_applies_open_end(res) ==
    /\ res.coupon_used \in DiscountCodes
    /\ LET discount == Discounts[res.coupon_used] IN
        /\ res.check_in >= discount.start_date
        /\ Nights(res.check_in, res.check_out) >= discount.numbers_of_nights

\* calculate_discount: the conditions under which it subtracts.
discount_applies(res) ==
    /\ res.coupon_used \in DiscountCodes
    /\ LET discount == Discounts[res.coupon_used] IN
        /\ res.check_in >= discount.start_date
        /\ res.check_out <= discount.end_date
        /\ Nights(res.check_in, res.check_out) >= discount.numbers_of_nights

\* calculate_discount: reservation.total_cost -= total_cost * (discount / 100)
discounted_total(res) ==
    Quantize(res.total_cost * 100
             - res.total_cost * Discounts[res.coupon_used].discount)

\* CalculateDiscountAPI.post.  rid 0 stands for an unknown reservation id.
CalculateDiscount(actor, rid, discount_code) ==
    /\ UNCHANGED <<pending, calendar, next_event, sessions, now, probe, checkout_txn, deliveries>>
    /\ IF rid \notin Rids
       THEN /\ resp' = Resp("discount", 400, 0, discount_code, "not found")
            /\ UNCHANGED <<reservations, n_discount>>
       ELSE IF reservations[rid].status = PAID
       THEN /\ resp' = Resp("discount", 400, rid, discount_code, "already paid")
            /\ UNCHANGED <<reservations, n_discount>>
       ELSE LET res == [reservations[rid] EXCEPT !.coupon_used = discount_code] IN
            IF discount_applies(res)
            THEN /\ n_discount < MaxDiscounts
                 /\ n_discount' = n_discount + 1
                 /\ reservations' = [reservations EXCEPT ![rid] =
                        [res EXCEPT !.total_cost = discounted_total(res)]]
                 /\ resp' = Resp("discount", 200, rid, discount_code, "applied")
            ELSE /\ reservations' = [reservations EXCEPT ![rid] = res]
                 /\ resp' = Resp("discount", 400, rid, discount_code,
                                 "not applicable")
                 /\ UNCHANGED n_discount

\* ------------------------------------------------------------- checkout
\* CreateCheckoutSessionLinkAPI.post: the test that refuses payment.
\* The state test without the age test: only PAID and CANCELED refuse payment.
payment_disallowed_by_status(res) == res.status \in {PAID, CANCELED}

payment_disallowed(res) ==
    \/ res.status \in {PAID, CANCELED}
    \/ now - res.created_at > CheckoutGraceMinutes

\* CreateCheckoutSessionLinkAPI.post.  stripe_ok: Session.create returned.
CreateCheckoutSession(actor, rid, stripe_ok) ==
    /\ UNCHANGED <<pending, calendar, next_event, now, n_discount, probe, checkout_txn, deliveries>>
    /\ IF rid \notin Rids
       THEN /\ resp' = Resp("checkout", 400, 0, "", "not found")
            /\ UNCHANGED <<reservations, sessions>>
       ELSE IF payment_disallowed(reservations[rid])
       THEN /\ resp' = Resp("checkout", 400, rid, "", "cannot be processed")
            /\ UNCHANGED <<reservations, sessions>>
       ELSE IF ~stripe_ok
       THEN /\ resp' = Resp("checkout", 400, rid, "", "stripe error")
            /\ UNCHANGED <<reservations, sessions>>
       ELSE /\ Len(sessions) < MaxSessions
            /\ sessions' = Append(sessions,
                   [rid |-> rid, amount |-> reservations[rid].total_cost])
            /\ reservations' = [reservations EXCEPT
                   ![rid].payment_intent_id = SessionId(Len(sessions) + 1)]
            /\ resp' = Resp("checkout", 200, rid, "", "url")

\* The row lock never taken: a plain get() in place of select_for_update().
row_locked_never(rid) == FALSE

\* Reservation.objects.select_for_update().get(id=...): the row lock is
\* held by an open transaction, so the statement waits.
row_locked(rid) ==
    \E k \in 1..Len(checkout_txn) : checkout_txn[k].rid = rid

\* CreateCheckoutSessionLinkAPI.post, step by step.  The transaction opens
\* and reads the row under the lock.
CheckoutBegin(actor, rid) ==
    /\ rid \in Rids
    /\ Len(checkout_txn) < MaxCheckoutsInFlight
    /\ ~row_locked(rid)
    /\ checkout_txn' = Append(checkout_txn,
           [rid |-> rid, row |-> reservations[rid], session |-> 0])
    /\ resp' = NoResp
    /\ UNCHANGED <<reservations, pending, calendar, next_event, sessions, now,
                   n_discount, probe, deliveries>>

\* The status and age test on the row read, then stripe.checkout.Session
\* .create; a refusal or a Stripe error leaves the atomic block, which
\* ends the transaction.
CheckoutCreateSession(k, stripe_ok) ==
    /\ k \in 1..Len(checkout_txn)
    /\ checkout_txn[k].session = 0
    /\ UNCHANGED <<reservations, pending, calendar, next_event, now,
                   n_discount, probe, deliveries>>
    /\ LET txn == checkout_txn[k] IN
       IF payment_disallowed(txn.row)
       THEN /\ resp' = Resp("checkout", 400, txn.rid, "", "cannot be processed")
            /\ checkout_txn' = Remove(checkout_txn, k)
            /\ UNCHANGED sessions
       ELSE IF ~stripe_ok
       THEN /\ resp' = Resp("checkout", 400, txn.rid, "", "stripe error")
            /\ checkout_txn' = Remove(checkout_txn, k)
            /\ UNCHANGED sessions
       ELSE /\ Len(sessions) < MaxSessions
            /\ sessions' = Append(sessions,
                   [rid |-> txn.rid, amount |-> txn.row.total_cost])
            /\ checkout_txn' = [checkout_txn EXCEPT
                   ![k].session = Len(sessions) + 1]
            /\ resp' = NoResp

\* reservation.payment_intent_id = session.id; reservation.save(); the
\* atomic block ends and the lock is released.  save() writes every field
\* of the row as the transaction read it.
CheckoutCommit(k) ==
    /\ k \in 1..Len(checkout_txn)
    /\ checkout_txn[k].session # 0
    /\ LET txn == checkout_txn[k] IN
       /\ reservations' = [reservations EXCEPT ![txn.rid] =
              [txn.row EXCEPT !.payment_intent_id = SessionId(txn.session)]]
       /\ resp' = Resp("checkout", 200, txn.rid, "", "url")
    /\ checkout_txn' = Remove(checkout_txn, k)
    /\ UNCHANGED <<pending, calendar, next_event, sessions, now, n_discount,
                   probe, deliveries>>

\* -------------------------------------------------------------- webhook
\* The lookup matching any row that holds a checkout session.
reservations_by_any_session(sid) ==
    {i \in Rids : reservations[i].payment_intent_id[1] = "cs"}

\* get_object_or_404(Reservation, payment_intent_id=session_id): the rows
\* that match.
reservations_by_session(sid) ==
    {i \in Rids : reservations[i].payment_intent_id = SessionId(sid)}

\* The event inserted into the room's booking-channel calendar.
reservation_event_booking(res, id) ==
    [id |-> id, cal |-> <<res.room, "booking">>,
     start |-> res.check_in, end |-> res.check_out, external |-> FALSE]

\* add_reservation_to_google_calendars: the event it inserts.
reservation_event(res, id) ==
    [id |-> id, cal |-> <<res.room, "primary">>,
     start |-> res.check_in, end |-> res.check_out, external |-> FALSE]

\* The id of the created event not memorised on the reservation.
event_id_not_memorised(res, id) == res.event_id

\* add_reservation_to_google_calendars: reservation.event_id after the
\* insert returned the event with the given id.
memorised_event_id(res, id) == id

\* handle_checkout_session_completed: the status of the Response it
\* returns.  service_ok: the calendar service was built; insert_ok: the
\* event insert returned; notify_ok: the e-mail and WhatsApp dispatch
\* went through.
handler_status(sid, service_ok, insert_ok, notify_ok) ==
    IF Cardinality(reservations_by_session(sid)) # 1 THEN 500
    ELSE IF ~(service_ok /\ insert_ok) THEN 500
    ELSE notification_swallowed(200, notify_ok)

\* StripeWebhook.post: the status it answers with after dispatching a
\* checkout.session.completed event, given the handler's Response.
webhook_status(handled) == 200

\* What a webhook response records of its request, and whether the handler
\* reached the calendar and the calendar call raised.
WebhookArg(valid, event_type, sid, calendar_failed) ==
    [valid |-> valid, type |-> event_type, sid |-> sid,
     calendar_failed |-> calendar_failed]

\* The event handled as parsed, without the signature verification.
dispatched_unverified(valid, event_type) ==
    event_type = "checkout.session.completed"

\* StripeWebhook.post: the event reaches handle_checkout_session_completed.
\* construct_event raises on a payload it cannot parse and on a signature
\* that does not verify, and the view returns before the dispatch.
dispatched(valid, event_type) ==
    valid /\ event_type = "checkout.session.completed"

\* StripeWebhook.post.  valid: construct_event accepted payload and
\* signature; sid: the session number of the event's object (0: a session
\* this application never created).
StripeWebhook(valid, event_type, sid, service_ok, insert_ok, notify_ok) ==
    /\ UNCHANGED <<pending, sessions, now, n_discount, probe, checkout_txn, deliveries>>
    /\ IF ~dispatched(valid, event_type)
       THEN /\ resp' = IF ~valid
                       THEN Resp("webhook", 400, 0,
                                 WebhookArg(valid, event_type, sid, FALSE),
                                 "error")
                       ELSE Resp("webhook", 200, 0,
                                 WebhookArg(valid, event_type, sid, FALSE),
                                 "success")
            /\ UNCHANGED <<reservations, calendar, next_event>>
       ELSE LET found == reservations_by_session(sid)
                arg == WebhookArg(valid, event_type, sid,
                                  /\ Cardinality(found) = 1
                                  /\ ~(service_ok /\ insert_ok))
                code == webhook_status(handler_status(sid, service_ok, insert_ok,
                                                     notify_ok))
                body == IF code = 200 THEN "success" ELSE "error"
            IN
            IF Cardinality(found) # 1 \/ ~(service_ok /\ insert_ok)
            THEN /\ resp' = Resp("webhook", code, 0, arg, body)
                 /\ UNCHANGED <<reservations, calendar, next_event>>
            ELSE LET rid == CHOOSE i \in found : TRUE IN
                 /\ calendar' = calendar \cup
                        {reservation_event(reservations[rid], next_event)}
                 /\ next_event' = next_event + 1
                 /\ reservations' = [reservations EXCEPT ![rid] =
                        [@ EXCEPT !.payment_intent_id = PaymentIntentId(sid),
                                  !.event_id = memorised_event_id(
                                      reservations[rid], next_event),
                                  !.status = PAID]]
                 /\ resp' = [Resp("webhook", code, rid, arg, body) EXCEPT
                                !.notified = Notified(notify_ok)]

\* Two deliveries of an event run handle_checkout_session_completed in two
\* requests; nothing in the handler locks the row.  The first step is the
\* lookup, the second everything after it.
\* get_object_or_404(Reservation, payment_intent_id=session_id): the
\* delivery keeps the instance it read.
WebhookLookup(sid) ==
    /\ Len(deliveries) < MaxDeliveriesInFlight
    /\ UNCHANGED <<reservations, pending, calendar, next_event, sessions, now,
                   n_discount, probe, checkout_txn>>
    /\ LET found == reservations_by_session(sid) IN
       IF Cardinality(found) # 1
       THEN /\ resp' = Resp("webhook",
                             webhook_status(handler_status(sid, TRUE, TRUE, TRUE)),
                             0,
                             WebhookArg(TRUE, "checkout.session.completed",
                                        sid, FALSE),
                             "success")
            /\ UNCHANGED deliveries
       ELSE LET rid == CHOOSE i \in found : TRUE IN
            /\ deliveries' = Append(deliveries,
                   [sid |-> sid, rid |-> rid, row |-> reservations[rid]])
            /\ resp' = NoResp

\* From get_google_calendar_service to the response: the event insert, then
\* save() of the instance the delivery read, which writes every field.
WebhookConfirm(k, service_ok, insert_ok, notify_ok) ==
    /\ k \in 1..Len(deliveries)
    /\ deliveries' = Remove(deliveries, k)
    /\ UNCHANGED <<pending, sessions, now, n_discount, probe, checkout_txn>>
    /\ LET run == deliveries[k]
           arg == WebhookArg(TRUE, "checkout.session.completed", run.sid,
                             ~(service_ok /\ insert_ok))
       IN
       IF ~(service_ok /\ insert_ok)
       THEN /\ resp' = Resp("webhook", webhook_status(500), 0, arg, "success")
            /\ UNCHANGED <<reservations, calendar, next_event>>
       ELSE /\ calendar' = calendar \cup {reservation_event(run.row, next_event)}
            /\ next_event' = next_event + 1
            /\ reservations' = [reservations EXCEPT ![run.rid] =
                   [run.row EXCEPT
                       !.payment_intent_id = PaymentIntentId(run.sid),
                       !.event_id = memorised_event_id(run.row, next_event),
                       !.status = PAID]]
            /\ resp' = [Resp("webhook", webhook_status(200), run.rid, arg,
                             "success")
                        EXCEPT !.notified = Notified(notify_ok)]

\* --------------------------------------------------------------- cancel
\* The lookup by reservation id alone, for every user.
cancel_visible_to_all(actor, rid) == rid \in Rids

\* CancelReservationAPI.post: the reservation the view may fetch for the
\* requesting user.
cancel_visible(actor, rid) ==
    actor \in Admins \/ reservations[rid].user = actor

\* A reservation without a stored event treated as having nothing to delete.
event_deleted_or_absent(res, service_ok, delete_ok) ==
    /\ service_ok
    /\ \/ res.event_id = NoEvent
       \/ /\ delete_ok
          /\ \E e \in calendar : e.id = res.event_id /\ e.cal = <<res.room, "primary">>

\* cancel_reservation_and_remove_event: the delete call returns.
event_deleted(res, service_ok, delete_ok) ==
    /\ service_ok
    /\ res.event_id # NoEvent
    /\ delete_ok
    /\ \E e \in calendar : e.id = res.event_id /\ e.cal = <<res.room, "primary">>

\* The status set before the event is deleted.
canceled_status_first(res, deleted) == CANCELED

\* cancel_reservation_and_remove_event: the status it leaves, given
\* whether the event was deleted.
canceled_status(res, deleted) == IF deleted THEN CANCELED ELSE res.status

\* CancelReservationAPI.post
CancelReservation(actor, rid, service_ok, delete_ok, notify_ok) ==
    /\ UNCHANGED <<pending, next_event, sessions, now, n_discount, probe, checkout_txn, deliveries>>
    /\ IF rid \notin Rids
       THEN /\ resp' = Resp("cancel", 404, 0, actor, "not found")
            /\ UNCHANGED <<reservations, calendar>>
       ELSE IF reservations[rid].status = CANCELED
       THEN /\ resp' = Resp("cancel", 400, rid, actor, "already canceled")
            /\ UNCHANGED <<reservations, calendar>>
       ELSE IF ~cancel_visible(actor, rid)
       THEN /\ resp' = Resp("cancel", 404, rid, actor, "not found")
            /\ UNCHANGED <<reservations, calendar>>
       ELSE IF reservations[rid].payment_intent_id = NoPayment
       THEN /\ resp' = Resp("cancel", 400, rid, actor, "no payment intent")
            /\ UNCHANGED <<reservations, calendar>>
       ELSE LET res == reservations[rid]
                deleted == event_deleted(res, service_ok, delete_ok)
            IN
            /\ calendar' = IF deleted
                           THEN {e \in calendar : e.id # res.event_id}
                           ELSE calendar
            /\ reservations' = [reservations EXCEPT
                   ![rid].status = canceled_status(res, deleted)]
            /\ resp' = IF deleted
                       THEN LET code == notification_swallowed(200, notify_ok) IN
                            [Resp("cancel", code, rid, actor,
                                  IF code = 200 THEN "canceled" ELSE "error")
                                EXCEPT !.notified = Notified(notify_ok)]
                       ELSE Resp("cancel", 500, rid, actor, "error")

\* --------------------------------------------------------- availability
\* AvailableRoomsForDatesAPI.get: the rooms the exclude() removes.  Django
\* does not tie the conditions of one exclude() over a multi-valued relation
\* to the same related row: each lookup on reservations__... becomes an
\* EXISTS subquery of its own (Some), tested against the room's reservations
\* separately.
room_excluded(room, check_in, check_out, current_time) ==
    LET Some(P(_)) ==
            \E i \in Rids : reservations[i].room = room /\ P(reservations[i])
        CheckInLt(res) == res.check_in < check_out
        CheckOutGt(res) == res.check_out > check_in
        IsPaid(res) == res.status = PAID
        IsUnpaid(res) == res.status = UNPAID
        CreatedGte(res) == res.created_at >= current_time - AvailGraceMinutes
        IsCanceled(res) == res.status = CANCELED
    IN  /\ Some(CheckInLt)
        /\ Some(CheckOutGt)
        /\ \/ Some(IsPaid)
           \/ Some(IsUnpaid) /\ Some(CreatedGte)
           \/ Some(IsCanceled)

\* get_busy_dates_from_reservations: the rows the query keeps.
local_reservations(room, check_in, check_out, current_time) ==
    {i \in Rids :
        /\ reservations[i].room = room
        /\ reservations[i].check_out >= check_in
        /\ reservations[i].check_in <= check_out
        /\ ~(/\ reservations[i].status = UNPAID
             /\ reservations[i].created_at < current_time - BusyGraceMinutes)}

\* get_busy_dates_from_reservations
get_busy_dates_from_reservations(room, check_in, check_out) ==
    UNION {{Strftime(d) : d \in
                reservations[i].check_in..(reservations[i].check_out - 1)} :
           i \in local_reservations(room, check_in, check_out, now)}

\* get_busy_dates_from_calendars; every event is an all-day event, whose
\* end date is exclusive.
get_busy_dates_from_calendars(room, check_in, check_out) ==
    UNION {{Strftime(d) : d \in e.start..(e.end - 1)} :
           e \in events_list(<<room, "primary">>, check_in, check_out)
                 \cup events_list(<<room, "booking">>, check_in, check_out)}

\* get_combined_busy_dates
get_combined_busy_dates(room, check_in, check_out) ==
    get_busy_dates_from_reservations(room, check_in, check_out)
        \cup get_busy_dates_from_calendars(room, check_in, check_out)

\* is_room_available: the while loop from current_date up to last_date.
RECURSIVE scan_dates(_, _, _)
scan_dates(busy_dates, current_date, last_date) ==
    IF current_date > last_date THEN TRUE
    ELSE IF Strftime(current_date) \in busy_dates THEN FALSE
    ELSE scan_dates(busy_dates, current_date + 1, last_date)

\* The scan with the check-out day included.
is_room_available_inclusive(busy_dates, check_in, check_out) ==
    scan_dates(busy_dates, check_in, check_out)

\* is_room_available
is_room_available(busy_dates, check_in, check_out) ==
    scan_dates(busy_dates, check_in, check_out - 1)

\* AvailableRoomsForDatesAPI.get: the busy dates the verdict is taken on.
verdict_busy_dates(room, check_in, check_out) ==
    get_busy_dates_from_reservations(room, check_in, check_out)

\* AvailableRoomsForDatesAPI.get: final_available_rooms
final_available_rooms(check_in, check_out, max_people) ==
    {room \in Rooms :
        /\ RoomMaxPeople[room] >= max_people
        /\ ~room_excluded(room, check_in, check_out, now)
        /\ is_room_available(verdict_busy_dates(room, check_in, check_out),
                             check_in, check_out)}

\* AvailableRoomsForDatesAPI.get
AvailableRoomsForDates(check_in, check_out, number_of_people) ==
    /\ resp' = [Resp("available", 200, 0, "", "rooms") EXCEPT
                   !.rooms = final_available_rooms(check_in, check_out,
                                                   number_of_people)]
    /\ UNCHANGED <<reservations, pending, calendar, next_event, sessions, now,
                   n_discount, probe, checkout_txn, deliveries>>

\* ------------------------------------------------------- the environment
\* A booking made on another channel appears as an all-day event on one of
\* the room's calendars.
ExternalEvent(room, kind, start, end) ==
    /\ start < end
    /\ Cardinality({e \in calendar : e.external}) < MaxExternalEvents
    /\ calendar' = calendar \cup
           {[id |-> next_event, cal |-> <<room, kind>>, start |-> start,
             end |-> end, external |-> TRUE]}
    /\ next_event' = next_event + 1
    /\ resp' = NoResp
    /\ UNCHANGED <<reservations, pending, sessions, now, n_discount, probe, checkout_txn, deliveries>>

\* ---------------------------------------------------------------- clock
Tick ==
    /\ now + ClockStep <= MaxTime
    /\ now' = now + ClockStep
    /\ resp' = NoResp
    /\ UNCHANGED <<reservations, pending, calendar, next_event, sessions,
                   n_discount, probe, checkout_txn, deliveries>>

\* ------------------------------------------------------- specification
\* Reservation ids a request may name: every row, and 0 for an unknown id.
RidInputs == 0..MaxReservations
\* Session numbers a webhook event may carry: every session Stripe may have
\* created, and 0 for a session of no reservation here.
SessionInputs == 0..MaxSessions
EventTypes == {"checkout.session.completed", "payment_intent.succeeded"}
CalendarKinds == {"primary", "booking"}

Init ==
    /\ reservations = <<>>
    /\ pending = <<>>
    /\ calendar = {}
    /\ next_event = 1
    /\ sessions = <<>>
    /\ now = 0
    /\ n_discount = 0
    /\ resp = NoResp
    /\ probe = NoProbe
    /\ checkout_txn = <<>>
    /\ deliveries = <<>>

\* The requests, by handler.
RentRoomBegin ==
    \E u \in Creators, room \in Rooms, ci \in Days, co \in Days,
       n \in PeopleInputs, ok \in BOOLEAN :
        RentRoomQuery(u, room, ci, co, n, ok)

RentRoomEnd == \E k \in 1..Len(pending) : RentRoomSave(k)

RentRoom == RentRoomBegin \/ RentRoomEnd

Discount ==
    \E actor \in Users, rid \in RidInputs, code \in CodeInputs :
        CalculateDiscount(actor, rid, code)

Checkout ==
    \E actor \in Users, rid \in RidInputs, ok \in BOOLEAN :
        CreateCheckoutSession(actor, rid, ok)

Webhook ==
    \E valid \in BOOLEAN, type \in EventTypes, sid \in SessionInputs,
       service_ok \in BOOLEAN, insert_ok \in BOOLEAN, notify_ok \in BOOLEAN :
        StripeWebhook(valid, type, sid, service_ok, insert_ok, notify_ok)

Cancel ==
    \E actor \in Users, rid \in RidInputs,
       service_ok \in BOOLEAN, delete_ok \in BOOLEAN, notify_ok \in BOOLEAN :
        CancelReservation(actor, rid, service_ok, delete_ok, notify_ok)

Available ==
    \E ci \in Days, co \in Days, n \in PeopleInputs :
        AvailableRoomsForDates(ci, co, n)

External ==
    \E room \in Rooms, kind \in CalendarKinds, s \in Days, e \in Days :
        ExternalEvent(room, kind, s, e)

\* The booking lifecycle: create, pay, confirm, cancel.
Next == RentRoom \/ Checkout \/ Webhook \/ Cancel
Spec == Init /\ [][Next]_vars

\* Pricing: create, discount, pay, confirm.  Prices are per reservation, so
\* the number of rows is kept lower here.
FewRows == Len(reservations) + Len(pending) < MaxPricedReservations
NextPricing ==
    \/ FewRows /\ RentRoomBegin
    \/ RentRoomEnd
    \/ Discount
    \/ Checkout
    \/ Webhook
SpecPricing == Init /\ [][NextPricing]_vars

\* Availability: create, the clock, the other booking channels, the query.
NextAvailability == RentRoom \/ Tick \/ External \/ Available
SpecAvailability == Init /\ [][NextAvailability]_vars

\* is_room_available called directly on a busy-date set and a range.
DateStrings == {Strftime(d) : d \in Days}

IsRoomAvailableCall ==
    /\ ~probe.called
    /\ probe' = [probe EXCEPT
           !.called = TRUE,
           !.result = is_room_available(probe.busy, probe.check_in,
                                        probe.check_out)]
    /\ UNCHANGED <<reservations, pending, calendar, next_event, sessions, now,
                   n_discount, resp, checkout_txn, deliveries>>

InitProbe ==
    /\ reservations = <<>>
    /\ pending = <<>>
    /\ calendar = {}
    /\ next_event = 1
    /\ sessions = <<>>
    /\ now = 0
    /\ n_discount = 0
    /\ resp = NoResp
    /\ checkout_txn = <<>>
    /\ deliveries = <<>>
    /\ probe \in [busy : SUBSET DateStrings, check_in : Days, check_out : Days,
                  called : {FALSE}, result : {FALSE}]

SpecProbe == InitProbe /\ [][IsRoomAvailableCall]_vars

\* Create with stays around the longest one allowed.
LongStayEnds == {MaxNights, MaxNights + 1}

RentRoomLong ==
    \E u \in Creators, room \in Rooms, ci \in Days, co \in LongStayEnds,
       n \in PeopleInputs, ok \in BOOLEAN :
        RentRoomQuery(u, room, ci, co, n, ok)

NextCreate == RentRoomBegin \/ RentRoomLong \/ RentRoomEnd
SpecCreate == Init /\ [][NextCreate]_vars

\* The booking lifecycle with the create requests processed one at a time:
\* a create request begins only when no other is in flight.
OneAtATime == pending = <<>>
NextSequential ==
    \/ OneAtATime /\ RentRoomBegin
    \/ RentRoomEnd
    \/ Checkout
    \/ Webhook
    \/ Cancel
SpecSequential == Init /\ [][NextSequential]_vars

\* The booking lifecycle, one create at a time, with the availability query.
NextLifecycleQuery == NextSequential \/ Available
SpecLifecycleQuery == Init /\ [][NextLifecycleQuery]_vars

\* Create, with long stays, and the availability query.
NextCreateQuery == NextCreate \/ Available
SpecCreateQuery == Init /\ [][NextCreateQuery]_vars

\* Checkout requests racing for their reservations' rows.
\* The five operations that write a reservation, over one reservation.
NextLifecycle ==
    \/ (FewRows /\ RentRoomBegin)
    \/ RentRoomEnd
    \/ Discount
    \/ Checkout
    \/ Webhook
    \/ Cancel

SpecLifecycle == Init /\ [][NextLifecycle]_vars

\* One reservation through its whole life while the clock runs: payment
\* requested at every age and in every status.
NextPaymentClock ==
    \/ (FewRows /\ RentRoomBegin)
    \/ RentRoomEnd
    \/ Checkout
    \/ Webhook
    \/ Cancel
    \/ Tick

SpecPaymentClock == Init /\ [][NextPaymentClock]_vars

CheckoutBegins ==
    \E actor \in Users, rid \in RidInputs : CheckoutBegin(actor, rid)
CheckoutCreatesSession ==
    \E k \in 1..Len(checkout_txn), ok \in BOOLEAN :
        CheckoutCreateSession(k, ok)
CheckoutCommits == \E k \in 1..Len(checkout_txn) : CheckoutCommit(k)

NextCheckoutRace ==
    \/ FewRows /\ RentRoomBegin
    \/ RentRoomEnd
    \/ CheckoutBegins
    \/ CheckoutCreatesSession
    \/ CheckoutCommits
    \/ Tick
SpecCheckoutRace == Init /\ [][NextCheckoutRace]_vars

WebhookLookups == \E sid \in SessionInputs : WebhookLookup(sid)
WebhookConfirms ==
    \E k \in 1..Len(deliveries), service_ok \in BOOLEAN, insert_ok \in BOOLEAN,
       notify_ok \in BOOLEAN :
        WebhookConfirm(k, service_ok, insert_ok, notify_ok)

\* Deliveries of completed events running side by side, over one
\* reservation and its checkout sessions.
NextWebhookRace ==
    \/ FewRows /\ RentRoomBegin
    \/ RentRoomEnd
    \/ Checkout
    \/ WebhookLookups
    \/ WebhookConfirms
SpecWebhookRace == Init /\ [][NextWebhookRace]_vars

\* =============================================================== claims
Overlap(a, b) == a.room = b.room /\ a.check_in < b.check_out /\ b.check_in < a.check_out
Completed(arg) == arg.valid /\ arg.type = "checkout.session.completed"

\* C1: the create operation inserts a row overlapping an existing row of
\* the same room only when its conflict query ran before that row was
\* inserted (the two requests interleaved between query and insert); the
\* insert itself never looks at the table again.  The witness is the state
\* the claim says is reachable: two overlapping PAID reservations of one room.
C1_OverlapOnlyByInterleaving ==
    [][Len(reservations') = Len(reservations) + 1 =>
        LET new == reservations'[Len(reservations')] IN
        \A i \in Rids :
            Overlap(reservations[i], new) =>
                \E k \in 1..Len(pending) :
                    /\ pending[k].room = new.room
                    /\ pending[k].check_in = new.check_in
                    /\ pending[k].check_out = new.check_out
                    /\ pending' = Remove(pending, k)
                    /\ pending[k].seen < i]_vars

C1_TwoOverlappingPaid ==
    \E i \in Rids, j \in Rids :
        /\ i < j
        /\ Overlap(reservations[i], reservations[j])
        /\ reservations[i].status = PAID
        /\ reservations[j].status = PAID

\* C2: for every busy-date set and every range with check_in < check_out,
\* is_room_available returns false exactly when some date d with
\* check_in <= d < check_out is in the set; the check-out day is not
\* scanned.
C2_ScansHalfOpenRange ==
    (probe.called /\ probe.check_in < probe.check_out) =>
        (probe.result = FALSE <=>
            \E d \in probe.check_in..(probe.check_out - 1) :
                Strftime(d) \in probe.busy)

C2_BusyCheckOutDayAvailable ==
    /\ probe.called
    /\ probe.check_in < probe.check_out
    /\ Strftime(probe.check_out) \in probe.busy
    /\ probe.result = TRUE

\* C3: a reservation's status becomes CANCELED only in a cancel of that
\* reservation that removed its stored calendar event; a cancel that
\* removes no event leaves every status unchanged and answers with an
\* error.
C3_CancelOnlyAfterEventRemoved ==
    [][/\ \A i \in Rids :
            (reservations[i].status # CANCELED
             /\ reservations'[i].status = CANCELED) =>
                /\ resp'.op = "cancel"
                /\ resp'.rid = i
                /\ reservations[i].event_id # NoEvent
                /\ \E e \in calendar : e.id = reservations[i].event_id
                /\ ~\E e \in calendar' : e.id = reservations[i].event_id
       /\ (resp'.op = "cancel" /\ calendar' = calendar) =>
            /\ resp'.code # 200
            /\ resp'.body # "canceled"
            /\ Len(reservations') = Len(reservations)
            /\ \A i \in Rids : reservations'[i].status = reservations[i].status
      ]_vars

C3_FailedDeleteKeepsPaid ==
    /\ resp.op = "cancel"
    /\ resp.code = 500
    /\ resp.rid \in Rids
    /\ reservations[resp.rid].status = PAID
    /\ \E e \in calendar : e.id = reservations[resp.rid].event_id

\* C4: when two successive calculate-discount calls apply the same code to
\* the same reservation, the second leaves total_cost at its value after
\* the first.
C4_SecondDiscountKeepsTotal ==
    [][(/\ resp.op = "discount" /\ resp.code = 200
        /\ resp'.op = "discount" /\ resp'.code = 200
        /\ resp'.rid = resp.rid
        /\ resp'.arg = resp.arg) =>
            reservations'[resp.rid].total_cost
                = reservations[resp.rid].total_cost]_vars

\* C5: a correctly signed checkout.session.completed event whose session
\* id is the payment-session identifier of no stored reservation is
\* answered with 404 and an error payload.
C5_UnknownSessionAnswered404 ==
    [][(/\ resp'.op = "webhook"
        /\ Completed(resp'.arg)
        /\ \A i \in Rids :
              reservations[i].payment_intent_id # SessionId(resp'.arg.sid)) =>
            (resp'.code = 404 /\ resp'.body = "error")]_vars

\* C6: a checkout.session.completed event whose session id is the
\* payment-session identifier of no stored reservation changes no
\* reservation (status, payment identifier, event id, total cost) and
\* creates no calendar event.
C6_UnknownSessionMutatesNothing ==
    [][(/\ resp'.op = "webhook"
        /\ Completed(resp'.arg)
        /\ \A i \in Rids :
              reservations[i].payment_intent_id # SessionId(resp'.arg.sid)) =>
            (/\ reservations' = reservations
             /\ calendar' = calendar
             /\ next_event' = next_event)]_vars

C6_UnknownSessionWhileOneIsOpen ==
    /\ resp.op = "webhook"
    /\ Completed(resp.arg)
    /\ resp.arg.sid = 0
    /\ \E i \in Rids :
          /\ reservations[i].payment_intent_id[1] = "cs"
          /\ reservations[i].status = UNPAID

\* C7: for every room and range, if the reservations of the room that
\* overlap the range are all UNPAID and created more than the grace period
\* ago (and there is at least one), the availability query lists the room
\* and none of these reservations is among those the busy dates are taken
\* from.
C7_StaleUnpaidDoesNotBlock ==
    \A room \in Rooms, ci \in Days, co \in Days :
        LET overlapping ==
                {i \in Rids : /\ reservations[i].room = room
                              /\ reservations[i].check_in < co
                              /\ reservations[i].check_out > ci}
            Stale(i) == /\ reservations[i].status = UNPAID
                        /\ reservations[i].created_at < now - AvailGraceMinutes
        IN  (ci < co /\ overlapping # {} /\ \A i \in overlapping : Stale(i)) =>
                /\ room \in final_available_rooms(ci, co, RoomMaxPeople[room])
                /\ overlapping \cap local_reservations(room, ci, co, now) = {}

\* C8: for every room and range, if a calendar of the room holds an event
\* covering a date of the range, the availability query does not list the
\* room, and the busy dates its verdict is taken on are the union of the
\* reservation busy dates and the calendar busy dates.
C8_CalendarEventBlocksAvailability ==
    \A room \in Rooms, ci \in Days, co \in Days :
        (/\ ci < co
         /\ \E e \in calendar :
               /\ e.cal[1] = room
               /\ \E d \in ci..(co - 1) : e.start <= d /\ d < e.end) =>
            /\ room \notin final_available_rooms(ci, co, RoomMaxPeople[room])
            /\ verdict_busy_dates(room, ci, co)
                   = get_combined_busy_dates(room, ci, co)

\* C9: the reservation a create request persists has check_out - check_in
\* > 0 nights and total_cost = nights * the room's cost per night.
C9_CreatedTotalIsNightsTimesCost ==
    [][(resp'.op = "create" /\ resp'.code = 201) =>
        LET res == reservations'[resp'.rid] IN
        /\ Len(reservations') = Len(reservations) + 1
        /\ resp'.rid = Len(reservations')
        /\ Nights(res.check_in, res.check_out) > 0
        /\ res.total_cost
               = Nights(res.check_in, res.check_out) * RoomCost[res.room]]_vars

C9_TwoNightsCreated ==
    /\ resp.op = "create"
    /\ resp.code = 201
    /\ resp.rid \in Rids
    /\ reservations[resp.rid].room = "R1"
    /\ Nights(reservations[resp.rid].check_in,
              reservations[resp.rid].check_out) = 2
    /\ reservations[resp.rid].total_cost = 2 * RoomCost["R1"]

\* The conditions C10 names, for a reservation and a discount code.
CodeConditions(res, code) ==
    /\ code \in DiscountCodes
    /\ Discounts[code].start_date <= res.check_in
    /\ res.check_out <= Discounts[code].end_date
    /\ Nights(res.check_in, res.check_out) >= Discounts[code].numbers_of_nights

\* The outcome C10 names for a calculate-discount call on reservation res
\* with the code, whose total_cost is total_after afterwards.
DiscountOutcome(res, code, total_after, answer) ==
    IF CodeConditions(res, code)
    THEN /\ total_after * 100
                = res.total_cost * 100 - res.total_cost * Discounts[code].discount
         /\ answer.code = 200
    ELSE /\ total_after = res.total_cost
         /\ answer.code = 400
         /\ answer.body = "not applicable"

\* C10 as stated: calculate-discount on an existing reservation reduces
\* total_cost by total_cost * percent / 100 exactly when the code exists,
\* start_date <= check_in, check_out <= end_date and nights >= the minimum;
\* otherwise it reports the discount inapplicable and leaves total_cost.
C10_DiscountIffConditions ==
    [][(resp'.op = "discount" /\ resp'.rid \in Rids) =>
        DiscountOutcome(reservations[resp'.rid], resp'.arg,
                        reservations'[resp'.rid].total_cost, resp')]_vars

\* C10, amended: on a reservation that is not PAID, calculate-discount
\* reduces total_cost by total_cost * percent / 100 exactly when the code
\* exists, start_date <= check_in, check_out <= end_date and nights >= the
\* minimum, and otherwise reports the discount inapplicable and leaves
\* total_cost; on a PAID reservation it answers 400 (already paid) and
\* leaves total_cost, whatever the code.
C10_DiscountIffConditionsUnlessPaid ==
    [][(resp'.op = "discount" /\ resp'.rid \in Rids) =>
        IF reservations[resp'.rid].status # PAID
        THEN DiscountOutcome(reservations[resp'.rid], resp'.arg,
                             reservations'[resp'.rid].total_cost, resp')
        ELSE /\ reservations'[resp'.rid].total_cost
                    = reservations[resp'.rid].total_cost
             /\ resp'.code = 400
             /\ resp'.body = "already paid"]_vars

C10_DiscountApplied ==
    /\ resp.op = "discount"
    /\ resp.code = 200
    /\ resp.rid \in Rids
    /\ CodeConditions(reservations[resp.rid], resp.arg)
    /\ reservations[resp.rid].total_cost
           < calculate_total_cost(reservations[resp.rid].room,
                                  reservations[resp.rid].check_in,
                                  reservations[resp.rid].check_out)

\* The rows whose stored payment-session identifier is the webhook's session.
Matched(arg) ==
    {i \in Rids : reservations[i].payment_intent_id = SessionId(arg.sid)}

\* Reservation i is confirmed by the step: PAID, with a new event on the
\* room's calendar for its dates whose id the reservation stores.
ConfirmedByStep(i) ==
    /\ reservations'[i].status = PAID
    /\ reservations'[i].event_id # NoEvent
    /\ ~\E e \in calendar : e.id = reservations'[i].event_id
    /\ \E e \in calendar' :
          /\ e.id = reservations'[i].event_id
          /\ e.cal = <<reservations[i].room, "primary">>
          /\ e.start = reservations[i].check_in
          /\ e.end = reservations[i].check_out

C12_NotificationFailureKeepsOutcome ==
    [][(resp'.notified = "failed") =>
        /\ resp'.op \in {"webhook", "cancel"}
        /\ resp'.rid \in Rids
        /\ resp'.code = 200
        /\ resp'.op = "webhook" =>
              /\ reservations[resp'.rid].status # PAID
              /\ reservations'[resp'.rid].status = PAID
              /\ resp'.body = "success"
        /\ resp'.op = "cancel" =>
              /\ reservations[resp'.rid].status # CANCELED
              /\ reservations'[resp'.rid].status = CANCELED
              /\ resp'.body = "canceled"]_vars

C12_CanceledThoughNotificationFailed ==
    /\ resp.op = "cancel"
    /\ resp.notified = "failed"
    /\ resp.rid \in Rids
    /\ reservations[resp.rid].status = CANCELED

\* The conditions C13 names, for a create request.
CreateConditions(arg) ==
    /\ arg.check_in < arg.check_out
    /\ arg.number_of_people <= RoomMaxPeople[arg.room]
    /\ arg.check_out - arg.check_in <= 30

\* C13: the row a create persists has check_in < check_out,
\* number_of_people <= the room's max_people and at most 30 nights, and
\* status UNPAID; a create request violating one of these is answered 400
\* with a validation error and persists nothing.
C13_CreateValidates ==
    [][/\ Len(reservations') = Len(reservations) + 1 =>
            LET new == reservations'[Len(reservations')] IN
            /\ CreateConditions(new)
            /\ new.status = UNPAID
       /\ (resp'.op = "create" /\ ~CreateConditions(resp'.arg)) =>
            /\ resp'.code = 400
            /\ resp'.body = "validation"
            /\ reservations' = reservations
            /\ pending' = pending]_vars

C13_TooLongStayRejected ==
    /\ resp.op = "create"
    /\ resp.code = 400
    /\ resp.body = "validation"
    /\ resp.arg.number_of_people <= RoomMaxPeople[resp.arg.room]
    /\ resp.arg.check_out - resp.arg.check_in = 31
    /\ \E i \in Rids :
          reservations[i].check_out - reservations[i].check_in = 30

\* The request overlaps an existing reservation of its room, as C14 puts it.
Conflicts(arg) ==
    \E i \in Rids :
        /\ reservations[i].room = arg.room
        /\ reservations[i].check_in < arg.check_out
        /\ reservations[i].check_out > arg.check_in

\* C14: with create requests processed one at a time, a create request
\* that overlaps an existing reservation of the same room is answered 400
\* and persists nothing, and no two reservations of one room ever overlap.
C14_SequentialCreatesNeverOverlap ==
    [][/\ (resp'.op = "create" /\ Conflicts(resp'.arg)) =>
            /\ resp'.code = 400
            /\ reservations' = reservations
            /\ pending' = pending
       /\ \A i \in 1..Len(reservations'), j \in 1..Len(reservations') :
            i < j => ~Overlap(reservations'[i], reservations'[j])]_vars

C14_OverlappingRequestRejected ==
    /\ resp.op = "create"
    /\ resp.code = 400
    /\ resp.body = "not available"
    /\ Conflicts(resp.arg)
    /\ Len(reservations) = 1

\* One of the room's calendars holds an event within the range.
CalendarEventWithin(room, check_in, check_out) ==
    \E e \in calendar :
        /\ e.cal[1] = room
        /\ e.cal[2] \in CalendarKinds
        /\ e.end > check_in
        /\ e.start < check_out

\* C15: a create request for a range within which the room's primary
\* calendar or its booking-channel calendar holds an event does not pass
\* the checks of the create operation: it is answered with a rejection and
\* is never on its way to being persisted.
C15_AnyCalendarEventRejectsCreate ==
    [][/\ Len(pending') = Len(pending) + 1 =>
            LET request == pending'[Len(pending')] IN
            ~CalendarEventWithin(request.room, request.check_in,
                                 request.check_out)
       /\ (/\ resp'.op = "create"
           /\ resp'.code # 201
           /\ CalendarEventWithin(resp'.arg.room, resp'.arg.check_in,
                                  resp'.arg.check_out)) =>
            /\ resp'.code \in {400, 500}
            /\ reservations' = reservations
            /\ pending' = pending]_vars

\* C16: for every room without calendar events whose reservations are all
\* CANCELED, and every range some of them overlap, the canceled
\* reservations' dates are not in the room's busy dates and the
\* availability query lists the room.
C16_CanceledDoesNotBlock ==
    \A room \in Rooms, ci \in Days, co \in Days :
        LET rows == {i \in Rids : reservations[i].room = room}
            overlapping == {i \in rows : /\ reservations[i].check_in < co
                                         /\ reservations[i].check_out > ci}
        IN  (/\ ci < co
             /\ overlapping # {}
             /\ \A i \in rows : reservations[i].status = CANCELED
             /\ ~\E e \in calendar : e.cal[1] = room) =>
                /\ get_busy_dates_from_reservations(room, ci, co) = {}
                /\ room \in final_available_rooms(ci, co, RoomMaxPeople[room])

\* C17: for every reservation of a room and every new stay that starts on
\* its check-out day and overlaps no reservation of the room, the
\* check-out day is not among the room's busy dates, the availability
\* query lists the room for the new stay, and the conflict query of create
\* finds nothing against it.
C17_CheckOutDayIsFree ==
    \A i \in Rids, co \in Days :
        LET room == reservations[i].room
            N == reservations[i].check_out
        IN  (/\ N \in Days
             /\ N < co
             /\ ~\E j \in Rids : /\ reservations[j].room = room
                                 /\ reservations[j].check_in < co
                                 /\ reservations[j].check_out > N
             /\ ~\E e \in calendar : e.cal[1] = room) =>
                /\ Strftime(N) \notin get_busy_dates_from_reservations(room, N, co)
                /\ conflicting_reservations(room, N, co) = {}
                /\ room \in final_available_rooms(N, co, RoomMaxPeople[room])

\* C18: a cancel request by a user who is neither the reservation's owner
\* nor an admin, or for a reservation whose payment reference is empty,
\* changes no reservation, removes no calendar event and is not answered
\* with success.
C18_CancelNeedsOwnerOrAdminAndPayment ==
    [][(/\ resp'.op = "cancel"
        /\ resp'.rid \in Rids
        /\ \/ (/\ resp'.arg \notin Admins
                /\ resp'.arg # reservations[resp'.rid].user)
           \/ reservations[resp'.rid].payment_intent_id = NoPayment) =>
            /\ reservations' = reservations
            /\ calendar' = calendar
            /\ resp'.code \in {400, 404}]_vars

C18_StrangerCannotCancelPaid ==
    /\ resp.op = "cancel"
    /\ resp.rid \in Rids
    /\ resp.arg \notin Admins
    /\ resp.arg # reservations[resp.rid].user
    /\ resp.code = 404
    /\ reservations[resp.rid].status = PAID
    /\ \E e \in calendar : e.id = reservations[resp.rid].event_id

\* The sessions created for reservation rid, by number.
SessionsOf(rid) == {n \in 1..Len(sessions) : sessions[n].rid = rid}

\* C19: the transactions of checkout requests for one reservation never
\* overlap, the row a transaction saves is the row as it stands when the
\* transaction commits but for the session id, and the session id a commit
\* stores is that of the latest session created for the reservation.
C19_CheckoutsSerialized ==
    [][/\ \A j \in 1..Len(checkout_txn'), k \in 1..Len(checkout_txn') :
            j < k => checkout_txn'[j].rid # checkout_txn'[k].rid
       /\ (resp'.op = "checkout" /\ resp'.code = 200) =>
            LET rid == resp'.rid IN
            /\ SessionsOf(rid) # {}
            /\ reservations'[rid].payment_intent_id
                   = SessionId(CHOOSE n \in SessionsOf(rid) :
                                  \A m \in SessionsOf(rid) : m <= n)
            /\ reservations' = [reservations EXCEPT
                   ![rid].payment_intent_id =
                       reservations'[rid].payment_intent_id]]_vars

C19_SecondSessionStored ==
    /\ resp.op = "checkout"
    /\ resp.code = 200
    /\ resp.rid \in Rids
    /\ Cardinality(SessionsOf(resp.rid)) = 2
    /\ reservations[resp.rid].payment_intent_id = SessionId(2)

\* C20: the webhook endpoint answers a correctly signed
\* checkout.session.completed event with 200 and a success payload only
\* when the event's reservation was confirmed by the request, and answers
\* with a 4xx/5xx status and an error payload when the calendar event
\* creation raised.
C20_WebhookSuccessOnlyWhenProcessed ==
    [][(resp'.op = "webhook" /\ Completed(resp'.arg)) =>
        /\ (resp'.code = 200 /\ resp'.body = "success") =>
              \E i \in Matched(resp'.arg) : ConfirmedByStep(i)
        /\ resp'.arg.calendar_failed =>
              /\ resp'.code \in 400..599
              /\ resp'.body = "error"]_vars

\* C21: a webhook request whose payload or signature construct_event
\* refuses is answered 400 with an error payload and is not dispatched: no
\* reservation changes, no calendar event is created and no notification
\* is sent.
C21_InvalidWebhookRejected ==
    [][(resp'.op = "webhook" /\ ~resp'.arg.valid) =>
        /\ resp'.code = 400
        /\ resp'.body = "error"
        /\ resp'.notified = "none"
        /\ reservations' = reservations
        /\ calendar' = calendar
        /\ next_event' = next_event]_vars

C21_InvalidEventForOpenSession ==
    /\ resp.op = "webhook"
    /\ ~resp.arg.valid
    /\ resp.arg.type = "checkout.session.completed"
    /\ resp.code = 400
    /\ \E i \in Rids :
          /\ reservations[i].payment_intent_id = SessionId(resp.arg.sid)
          /\ reservations[i].status = UNPAID

\* C22: a calculate-discount call reduces a reservation's total_cost only
\* if the reservation's room is among the rooms of the discount.
C22_DiscountOnlyForItsRooms ==
    [][(/\ resp'.op = "discount"
        /\ resp'.rid \in Rids
        /\ reservations'[resp'.rid].total_cost
               < reservations[resp'.rid].total_cost) =>
            /\ resp'.arg \in DiscountCodes
            /\ reservations[resp'.rid].room \in Discounts[resp'.arg].rooms]_vars

\* C23: create-checkout-session for a reservation that is PAID, CANCELED
\* or older than 10 minutes is answered 400, creates no payment session and
\* leaves the stored payment-session identifier as it was.
C23_DisallowedCheckoutRejected ==
    [][(/\ resp'.op = "checkout"
        /\ resp'.rid \in Rids
        /\ \/ reservations[resp'.rid].status \in {PAID, CANCELED}
           \/ now - reservations[resp'.rid].created_at > 10) =>
            /\ resp'.code = 400
            /\ sessions' = sessions
            /\ reservations'[resp'.rid].payment_intent_id
                   = reservations[resp'.rid].payment_intent_id]_vars

\* An UNPAID reservation with an open session, asked for payment again
\* after more than 10 minutes, and refused.
C23_AgedCheckoutRefused ==
    /\ resp.op = "checkout" /\ resp.code = 400 /\ resp.rid \in Rids
    /\ reservations[resp.rid].status = UNPAID
    /\ now - reservations[resp.rid].created_at > 10
    /\ reservations[resp.rid].payment_intent_id = SessionId(1)
    /\ Len(sessions) = 1

\* C24: over create, calculate-discount, create-checkout-session, webhook
\* and cancel, the status of a reservation changes only from UNPAID to PAID
\* and from PAID to CANCELED.
C24_StatusOnlyMovesForward ==
    [][\A i \in Rids :
          reservations'[i].status # reservations[i].status =>
              <<reservations[i].status, reservations'[i].status>>
                  \in {<<UNPAID, PAID>>, <<PAID, CANCELED>>}]_vars

\* The completed event of a session delivered again after its reservation
\* was canceled.
C24_WebhookAfterCancel ==
    /\ resp.op = "webhook" /\ resp.arg.valid
    /\ resp.arg.type = "checkout.session.completed"
    /\ resp.arg.sid \in 1..Len(sessions)
    /\ reservations[sessions[resp.arg.sid].rid].status = CANCELED

C26_ListedRoomIsNotRefused ==
    [][(/\ resp'.op = "create"
        /\ resp'.arg.number_of_people <= RoomMaxPeople[resp'.arg.room]
        /\ resp'.arg.check_in < resp'.arg.check_out
        /\ resp'.arg.room \in final_available_rooms(resp'.arg.check_in,
                                                   resp'.arg.check_out,
                                                   resp'.arg.number_of_people)
        /\ ~\E e \in calendar :
               /\ e.cal[1] = resp'.arg.room
               /\ e.start < resp'.arg.check_out
               /\ e.end > resp'.arg.check_in) =>
            resp'.body # "not available"]_vars

\* C27: for every interleaving of deliveries of a completed event, every
\* calendar event created for a reservation is the event whose id the
\* reservation stores, so that no reservation has a second event.
C27_EveryCreatedEventIsStored ==
    \A e \in calendar :
        ~e.external => \E i \in Rids : reservations[i].event_id = e.id

\* C28: whenever the completed event of a checkout session created for a
\* reservation arrives while the reservation is UNPAID and the calendar
\* call does not fail, the webhook finds the reservation and sets it PAID,
\* whatever further sessions were created for it.
C28_EverySessionStaysMatchable ==
    [][(/\ resp'.op = "webhook"
        /\ Completed(resp'.arg)
        /\ resp'.arg.sid \in 1..Len(sessions)
        /\ ~resp'.arg.calendar_failed
        /\ reservations[sessions[resp'.arg.sid].rid].status = UNPAID) =>
            /\ resp'.rid = sessions[resp'.arg.sid].rid
            /\ reservations'[sessions[resp'.arg.sid].rid].status = PAID]_vars

\* C29: whenever a webhook sets a reservation PAID, the reservation's
\* stored total_cost equals the amount of the checkout session that was
\* paid.
C29_PaidTotalIsChargedAmount ==
    [][(/\ resp'.op = "webhook"
        /\ resp'.rid \in Rids
        /\ reservations[resp'.rid].status = UNPAID
        /\ reservations'[resp'.rid].status = PAID) =>
            reservations'[resp'.rid].total_cost
                = sessions[resp'.arg.sid].amount]_vars

\* C30: a calculate-discount or create-checkout-session request issued by
\* a user who is neither the owner of the reservation nor an admin leaves
\* the reservation's total_cost, coupon code and payment-session identifier
\* unchanged.
C30_StrangerChangesNothing ==
    [][\A actor \in Users \ Admins, rid \in Rids :
          (/\ reservations[rid].user # actor
           /\ \/ \E code \in CodeInputs : CalculateDiscount(actor, rid, code)
              \/ \E ok \in BOOLEAN : CreateCheckoutSession(actor, rid, ok)) =>
              /\ reservations'[rid].total_cost = reservations[rid].total_cost
              /\ reservations'[rid].coupon_used = reservations[rid].coupon_used
              /\ reservations'[rid].payment_intent_id
                     = reservations[rid].payment_intent_id]_vars

====
